---- MODULE Spec2Model ----
(***************************************************************************)
(* Model of the `current` library (src/src/lib.rs): a task-local registry  *)
(* HashMap<TypeId, uint> holding the "current" pointer of every type, the  *)
(* scope guard CurrentGuard that puts the previous pointer back when it is *)
(* dropped, and the three operations of the Current trait.                 *)
(*                                                                         *)
(* Spec runs the operations on one task and keeps history variables for    *)
(* the properties that speak of the past; SpecTasks interleaves two tasks. *)
(* A panic ends the task that raised it: the unwinding that follows is not *)
(* modelled, the task takes no further step.                               *)
(***************************************************************************)
EXTENDS Integers, Sequences, FiniteSets, TLC

\* ------------------------------------------------------------ bounds
NumAddrs == 2        \* distinct addresses of bound values
MaxGuards == 2       \* guards alive at once on the main task (Spec)
MaxTaskGuards == 2   \* guards alive at once over both tasks (SpecTasks)

\* Two tasks, each with its own task-local key_current.
Threads == {"main", "other"}
\* Two types: T and another one.
TypeIds == {"T", "U"}
Addrs == 1..NumAddrs

\* ------------------------------------------------------------ Option<T>
None == {}
Some(x) == {x}
Unwrap(o) == CHOOSE x \in o : TRUE

\* ------------------------------------------------------------ HashMap<TypeId, uint>
HashMapNew == [k \in {} |-> 0]
Insert(m, k, v) == [x \in (DOMAIN m) \cup {k} |-> IF x = k THEN v ELSE m[x]]
Remove(m, k) == [x \in (DOMAIN m) \ {k} |-> m[x]]
Find(m, k) == IF k \in DOMAIN m THEN Some(m[k]) ELSE None

VARIABLES
    key_current,    \* [Threads -> Option<HashMap>]: the task-local slot
    guards,         \* [Threads -> Seq(CurrentGuard)]: live guards, oldest first
    panicked,       \* [Threads -> {"no", "drop", "current_unwrap"}]
    last,           \* the operation performed last, and what it returned
    bound_ever,     \* history: [Threads -> SUBSET TypeIds], set_current called
    lifo,           \* history: [Threads -> BOOLEAN], every drop so far was of the newest guard
    nest            \* history: progress of the latest nested-binding scenario

vars == <<key_current, guards, panicked, last, bound_ever, lifo, nest>>

\* The entry the registry slot `reg` holds for `id`, if any.
Entry(reg, id) == IF reg = None THEN None ELSE Find(Unwrap(reg), id)

\* Faulty variant: key_current as one slot shared by all tasks.
replace_Shared(kc, t, v) == [x \in DOMAIN kc |-> v]

\* key_current.replace(v) on task t: only task t's slot changes.
replace(kc, t, v) == [kc EXCEPT ![t] = v]

\* ------------------------------------------------------------ the code, as functions
\* Faulty variant: the Occupied arm reads the entry without setting the new pointer.
set_current_KeepsOld(reg, id, ptr) ==
    LET current == IF reg = None THEN HashMapNew ELSE Unwrap(reg)
        old_ptr == IF id \in DOMAIN current THEN Some(current[id]) ELSE None
    IN  [reg   |-> Some(IF id \in DOMAIN current THEN current ELSE Insert(current, id, ptr)),
         guard |-> [id |-> id, val |-> ptr, old_ptr |-> old_ptr]]

\* Faulty variant: the pointer is also stored under the other types' ids.
set_current_AnyKey(reg, id, ptr) ==
    LET current == IF reg = None THEN HashMapNew ELSE Unwrap(reg)
        old_ptr == IF id \in DOMAIN current THEN Some(current[id]) ELSE None
    IN  [reg   |-> Some([k \in TypeIds |-> ptr]),
         guard |-> [id |-> id, val |-> ptr, old_ptr |-> old_ptr]]

\* Faulty variant: the guard does not keep the pointer it replaced.
set_current_ForgetsOld(reg, id, ptr) ==
    LET current == IF reg = None THEN HashMapNew ELSE Unwrap(reg)
    IN  [reg   |-> Some(Insert(current, id, ptr)),
         guard |-> [id |-> id, val |-> ptr, old_ptr |-> None]]

\* Current::set_current on the slot value `reg`: the slot afterwards and the guard.
set_current(reg, id, ptr) ==
    LET current == IF reg = None THEN HashMapNew ELSE Unwrap(reg)
        old_ptr == IF id \in DOMAIN current THEN Some(current[id]) ELSE None
    IN  [reg   |-> Some(Insert(current, id, ptr)),
         guard |-> [id |-> id, val |-> ptr, old_ptr |-> old_ptr]]

\* Current::current on the slot value `reg`.  The slot is emptied by
\* key_current.replace(None) and the map is put back only on the path
\* that finds the entry; both early returns leave the slot None.
current(reg, id) ==
    IF reg = None
    THEN [reg |-> None, ret |-> None]
    ELSE IF Find(Unwrap(reg), id) = None
         THEN [reg |-> None, ret |-> None]
         ELSE [reg |-> Some(Unwrap(reg)), ret |-> Find(Unwrap(reg), id)]

\* Faulty variant: None is turned into a null reference instead of a panic.
current_unwrap_NoPanic(reg, id) ==
    LET r == current(reg, id)
    IN  [reg |-> r.reg, ret |-> r.ret, panicked |-> FALSE, name |-> "none"]

\* Current::current_unwrap: current, with a panic naming the type on None.
current_unwrap(reg, id) ==
    LET r == current(reg, id)
    IN  IF r.ret = None
        THEN [reg |-> r.reg, ret |-> None, panicked |-> TRUE, name |-> id]
        ELSE [reg |-> r.reg, ret |-> r.ret, panicked |-> FALSE, name |-> "none"]

\* Faulty variant: the Some(old_ptr) arm leaves the entry as it is.
drop_NoRestore(reg, g) ==
    IF reg = None
    THEN [reg |-> None, panicked |-> TRUE]
    ELSE IF g.old_ptr = None
         THEN [reg |-> None, panicked |-> FALSE]
         ELSE [reg |-> reg, panicked |-> FALSE]

\* Drop for CurrentGuard on the slot value `reg`.  unwrap() panics on an
\* empty slot; the old_ptr = None arm removes the entry and returns before
\* the map is put back.
drop(reg, g) ==
    IF reg = None
    THEN [reg |-> None, panicked |-> TRUE]
    ELSE IF g.old_ptr = None
         THEN LET removed == Remove(Unwrap(reg), g.id)   \* dropped at the return
              IN  [reg |-> None, panicked |-> FALSE]
         ELSE [reg |-> Some(Insert(Unwrap(reg), g.id, Unwrap(g.old_ptr))),
               panicked |-> FALSE]

\* ------------------------------------------------------------ history of the nested scenario
\* nest follows the latest run "bind a on a task where the type is unbound,
\* bind b, release b's guard, release a's guard" in which the task performs
\* nothing else but lookups of that type.  phase: 1 after bind a, 2 after
\* bind b, 3 after the inner release, 4 after the outer release, 0 otherwise;
\* a and b are the two addresses bound.
NestIdle == [task |-> "none", id |-> "none", phase |-> 0, a |-> 0, b |-> 0]

NestBind(t, id, ptr) ==
    IF Entry(key_current[t], id) = None
    THEN [task |-> t, id |-> id, phase |-> 1, a |-> ptr, b |-> 0]
    ELSE IF nest.task = t /\ nest.id = id /\ nest.phase = 1
         THEN [nest EXCEPT !.phase = 2, !.b = ptr]
         ELSE IF nest.task = t THEN NestIdle ELSE nest

NestLookup(t, id) ==
    IF nest.task = t /\ nest.id # id THEN NestIdle ELSE nest

NestDrop(t, i, failed) ==
    IF nest.task # t THEN nest
    ELSE IF ~failed /\ i = Len(guards[t]) /\ nest.phase \in {2, 3}
         THEN [nest EXCEPT !.phase = nest.phase + 1]
         ELSE NestIdle

\* ------------------------------------------------------------ state machine
NoOp == [task |-> "none", op |-> "none", id |-> "none", ret |-> None, panicked |-> FALSE,
         prev |-> None, roundtrip |-> FALSE]

Init ==
    /\ key_current = [t \in Threads |-> None]
    /\ guards = [t \in Threads |-> << >>]
    /\ panicked = [t \in Threads |-> "no"]
    /\ last = NoOp
    /\ bound_ever = [t \in Threads |-> {}]
    /\ lifo = [t \in Threads |-> TRUE]
    /\ nest = NestIdle

Alive(t) == panicked[t] = "no"

LiveGuards == LET RECURSIVE Sum(_)
                  Sum(S) == IF S = {} THEN 0
                            ELSE LET t == CHOOSE x \in S : TRUE
                                 IN  Len(guards[t]) + Sum(S \ {t})
              IN  Sum(Threads)

RemoveAt(s, i) == [j \in 1..(Len(s) - 1) |-> IF j < i THEN s[j] ELSE s[j + 1]]

\* v.set_current() on task t, v of type id at address ptr.
SetCurrent(t, id, ptr) ==
    /\ Alive(t)
    /\ LET r == set_current(key_current[t], id, ptr)
       IN  /\ key_current' = replace(key_current, t, r.reg)
           /\ guards' = [guards EXCEPT ![t] = Append(@, r.guard)]
    /\ UNCHANGED panicked

\* Current::current(&()) for type id on task t; it returns
\* current(key_current[t], id).ret.
Current(t, id) ==
    /\ Alive(t)
    /\ key_current' = replace(key_current, t, current(key_current[t], id).reg)
    /\ UNCHANGED <<guards, panicked>>

\* Current::current_unwrap(&()) for type id on task t; a panic ends the task.
CurrentUnwrap(t, id) ==
    /\ Alive(t)
    /\ LET r == current_unwrap(key_current[t], id)
       IN  /\ key_current' = replace(key_current, t, r.reg)
           /\ panicked' = [panicked EXCEPT ![t] = IF r.panicked THEN "current_unwrap" ELSE @]
    /\ UNCHANGED guards

\* The i-th live guard of task t is dropped (scope exit, or an explicit
\* drop); a panic ends the task and the guard is not released.
Drop(t, i) ==
    /\ Alive(t)
    /\ i \in 1..Len(guards[t])
    /\ LET r == drop(key_current[t], guards[t][i])
       IN  /\ key_current' = replace(key_current, t, r.reg)
           /\ guards' = [guards EXCEPT ![t] = IF r.panicked THEN @ ELSE RemoveAt(@, i)]
           /\ panicked' = [panicked EXCEPT ![t] = IF r.panicked THEN "drop" ELSE @]

\* ------------------------------------------------------------ history
\* What the operation just performed was and what it returned.  prev is
\* the entry the type had before a bind; roundtrip marks the drop of the
\* guard that the directly preceding operation, a bind, returned, and that
\* drop keeps the bind's prev.
LastBind(t, id) ==
    [NoOp EXCEPT !.task = t, !.op = "set_current", !.id = id,
                 !.prev = Entry(key_current[t], id)]

LastLookup(t, id) ==
    [NoOp EXCEPT !.task = t, !.op = "current", !.id = id,
                 !.ret = current(key_current[t], id).ret]

LastUnwrap(t, id) ==
    LET r == current_unwrap(key_current[t], id)
    IN  [NoOp EXCEPT !.task = t, !.op = "current_unwrap", !.id = id,
                     !.ret = r.ret, !.panicked = r.panicked]

LastDrop(t, i) ==
    LET direct == last.op = "set_current" /\ last.task = t /\ i = Len(guards[t])
    IN  [NoOp EXCEPT !.task = t, !.op = "drop", !.id = guards[t][i].id,
                     !.panicked = drop(key_current[t], guards[t][i]).panicked,
                     !.roundtrip = direct,
                     !.prev = IF direct THEN last.prev ELSE None]

\* One operation of task t, with the history variables kept; at most
\* `budget` guards are alive at once.
Step(t, budget) ==
    \/ \E id \in TypeIds, ptr \in Addrs :
          /\ LiveGuards < budget
          /\ SetCurrent(t, id, ptr)
          /\ last' = LastBind(t, id)
          /\ bound_ever' = [bound_ever EXCEPT ![t] = @ \cup {id}]
          /\ nest' = NestBind(t, id, ptr)
          /\ UNCHANGED lifo
    \/ \E id \in TypeIds :
          /\ Current(t, id)
          /\ last' = LastLookup(t, id)
          /\ nest' = NestLookup(t, id)
          /\ UNCHANGED <<bound_ever, lifo>>
    \/ \E id \in TypeIds :
          /\ CurrentUnwrap(t, id)
          /\ last' = LastUnwrap(t, id)
          /\ nest' = NestLookup(t, id)
          /\ UNCHANGED <<bound_ever, lifo>>
    \/ \E i \in 1..budget :
          /\ Drop(t, i)
          /\ last' = LastDrop(t, i)
          /\ nest' = NestDrop(t, i, drop(key_current[t], guards[t][i]).panicked)
          /\ lifo' = [lifo EXCEPT ![t] = @ /\ i = Len(guards[t])]
          /\ UNCHANGED bound_ever

\* One task.
Next == Step("main", MaxGuards)

Spec == Init /\ [][Next]_vars

\* Two tasks, interleaved; the history variables are not kept.
history == <<last, bound_ever, lifo, nest>>

TaskStep(t) ==
    \/ \E id \in TypeIds, ptr \in Addrs :
          LiveGuards < MaxTaskGuards /\ SetCurrent(t, id, ptr) /\ UNCHANGED history
    \/ \E id \in TypeIds : Current(t, id) /\ UNCHANGED history
    \/ \E id \in TypeIds : CurrentUnwrap(t, id) /\ UNCHANGED history
    \/ \E i \in 1..MaxTaskGuards : Drop(t, i) /\ UNCHANGED history

NextTasks == \E t \in Threads : TaskStep(t)

SpecTasks == Init /\ [][NextTasks]_vars

\* ------------------------------------------------------------ claims
\* The value bound by the newest live guard of type id, if any.
Top(s, id) ==
    LET idx == {j \in 1..Len(s) : s[j].id = id}
    IN  IF idx = {} THEN None
        ELSE Some(s[CHOOSE j \in idx : \A k \in idx : k <= j].val)

\* C1: a lookup of T made right after bind(&v), v of type T, returns v's
\* address, whatever the registry held before (no slot, T bound or not,
\* other types bound or not).
C1_LookupAfterBind ==
    [][\A t \in Threads, id \in TypeIds, ptr \in Addrs :
         SetCurrent(t, id, ptr) => current(key_current'[t], id).ret = Some(ptr)]_vars

\* C1 witness: a bind has just shadowed a different address of the same type.
C1_Witness ==
    /\ last.op = "set_current"
    /\ LET g == guards[last.task][Len(guards[last.task])]
       IN  g.id = last.id /\ g.old_ptr # None /\ g.old_ptr # Some(g.val)

\* C2: nested bindings of one type from unbound (bind a, bind b, release
\* b's guard, release a's guard, nothing but lookups of the type between):
\* the lookup returns b in the inner scope, a after the inner release and
\* nothing after the outer release.
C2_NestedBindings ==
    \A t \in Threads :
        nest.task = t =>
            /\ nest.phase = 2 => current(key_current[t], nest.id).ret = Some(nest.b)
            /\ nest.phase = 3 => current(key_current[t], nest.id).ret = Some(nest.a)
            /\ nest.phase = 4 => current(key_current[t], nest.id).ret = None

\* C2 witness: the scenario ran to its end with a # b and the final lookup
\* was made.
C2_Witness ==
    /\ nest.phase = 4
    /\ nest.a # nest.b
    /\ last.op = "current" /\ last.task = nest.task /\ last.id = nest.id
    /\ last.ret = None

\* C3: a lookup leaves the registry entry of every type as it was.
C3_LookupNoSideEffects ==
    [][\A t \in Threads, id \in TypeIds :
         Current(t, id) =>
             \A u \in TypeIds : Entry(key_current'[t], u) = Entry(key_current[t], u)]_vars

\* C4: releasing a guard that captured no previous binding removes the
\* entry of its type and leaves every other type's entry as it was.
C4_ReleaseRemovesOnlyOwnEntry ==
    [][\A t \in Threads, i \in 1..MaxGuards :
         (Drop(t, i) /\ guards[t][i].old_ptr = None) =>
             /\ Entry(key_current'[t], guards[t][i].id) = None
             /\ \A u \in TypeIds \ {guards[t][i].id} :
                    Entry(key_current'[t], u) = Entry(key_current[t], u)]_vars

\* C5: a lookup of a type that was never bound on the task returns nothing,
\* whatever was done with other types.
C5_UnboundLookupEmpty ==
    \A t \in Threads, id \in TypeIds :
        id \notin bound_ever[t] => current(key_current[t], id).ret = None

\* C5 witness: a never-bound type was looked up on a task that has bound
\* another type and still holds a guard.
C5_Witness ==
    /\ last.op = "current"
    /\ last.id \notin bound_ever[last.task]
    /\ bound_ever[last.task] # {}
    /\ guards[last.task] # << >>

\* C6: releasing a's guard before the guard of a later binding b of the same
\* type is not a failure: the entry then holds a's previous value (or is
\* absent if a had none), and the release of b's guard completes as well.
C6_OutOfOrderRelease ==
    [][\A t \in Threads, i \in 1..MaxGuards, j \in 1..MaxGuards :
         (/\ Drop(t, i)
          /\ i < j /\ j <= Len(guards[t])
          /\ guards[t][j].id = guards[t][i].id) =>
             /\ panicked'[t] = "no"
             /\ Entry(key_current'[t], guards[t][i].id) = guards[t][i].old_ptr
             /\ ~drop(key_current'[t], guards[t][j]).panicked]_vars

\* C7: lookup_or_fail fails, naming the type, exactly when the lookup
\* returns nothing, which is exactly when the type has no entry; otherwise
\* it returns what the lookup returns.
C7_LookupOrFail ==
    [][\A t \in Threads, id \in TypeIds :
         CurrentUnwrap(t, id) =>
             LET r == current_unwrap(key_current[t], id)
                 l == current(key_current[t], id).ret
             IN  /\ r.panicked <=> l = None
                 /\ r.panicked <=> Entry(key_current[t], id) = None
                 /\ r.panicked => r.name = id
                 /\ ~r.panicked => r.ret = l
                 /\ panicked'[t] = "current_unwrap" <=> Entry(key_current[t], id) = None]_vars

\* C7 witness: lookup_or_fail has failed on a task holding a guard.
C7_Witness ==
    /\ last.op = "current_unwrap"
    /\ last.panicked
    /\ panicked[last.task] = "current_unwrap"
    /\ guards[last.task] # << >>

\* C8: an operation of one task leaves the registry of the other task, and
\* so the result of each of its lookups, as it was.
C8_TasksIndependent ==
    [][\A t \in Threads : \A u \in Threads \ {t} :
         \/ /\ key_current'[u] = key_current[u]
            /\ \A id \in TypeIds :
                   current(key_current'[u], id).ret = current(key_current[u], id).ret
         \/ ~TaskStep(t)]_vars

\* C8 witness: both tasks have bound T, to different addresses.
C8_Witness ==
    /\ Entry(key_current["main"], "T") # None
    /\ Entry(key_current["other"], "T") # None
    /\ Entry(key_current["main"], "T") # Entry(key_current["other"], "T")

\* C9: while every release on a task has been of its newest guard, the
\* lookup of each type returns the value of the newest live guard of that
\* type, or nothing when the type has no live guard.
C9_RefinesStack ==
    \A t \in Threads :
        (lifo[t] /\ Alive(t)) =>
            \A id \in TypeIds : current(key_current[t], id).ret = Top(guards[t], id)

\* C10: the release of a guard never fails.
C10_ReleaseNeverFails ==
    \A t \in Threads : panicked[t] # "drop"

\* C11: a bind directly followed by the release of the guard it returned
\* leaves the type's entry as it was before the bind: absent if the type
\* was unbound, the same address if it was bound.
C11_BindReleaseRoundTrip ==
    (last.op = "drop" /\ last.roundtrip) =>
        /\ ~last.panicked
        /\ Entry(key_current[last.task], last.id) = last.prev

\* C11 witness: such a round trip was made on a type bound before it, while
\* another guard was alive.
C11_Witness ==
    /\ last.op = "drop" /\ last.roundtrip
    /\ last.prev # None
    /\ guards[last.task] # << >>

\* C12: releasing a guard that captured a previous address addr sets the
\* type's entry to addr whatever it holds at that time (the address the
\* guard installed, another one, or nothing): the release completes, the
\* lookup of the type then returns addr, and the other types' entries are
\* as before.
C12_ReleaseRestoresPrevious ==
    [][\A t \in Threads, i \in 1..MaxGuards :
         (Drop(t, i) /\ guards[t][i].old_ptr # None) =>
             /\ panicked'[t] = "no"
             /\ current(key_current'[t], guards[t][i].id).ret = guards[t][i].old_ptr
             /\ \A u \in TypeIds \ {guards[t][i].id} :
                    Entry(key_current'[t], u) = Entry(key_current[t], u)]_vars

\* C13: a bind is never rejected and shadows silently: the guard it returns
\* captures exactly the entry the type had (its address if bound, nothing if
\* unbound or if the task has no registry yet) and the entry becomes the
\* new address.
C13_BindShadows ==
    /\ \A t \in Threads, id \in TypeIds, ptr \in Addrs :
           Alive(t) => ENABLED SetCurrent(t, id, ptr)
    /\ last.op = "set_current" =>
           LET t == last.task
               g == guards[t][Len(guards[t])]
           IN  /\ g.id = last.id
               /\ g.old_ptr = last.prev
               /\ Entry(key_current[t], last.id) = Some(g.val)
               /\ panicked[t] = "no"

\* C13 witness: a bind was made on a type without entry while an older
\* guard was alive, and its guard captured nothing.
C13_Witness ==
    /\ last.op = "set_current"
    /\ last.prev = None
    /\ Len(guards[last.task]) >= 2
    /\ guards[last.task][Len(guards[last.task])].old_ptr = None

\* C14: a bind of one type leaves the entry of every other type as it was,
\* present with the same address or absent.
C14_BindFrame ==
    [][\A t \in Threads, id \in TypeIds, ptr \in Addrs :
         SetCurrent(t, id, ptr) =>
             \A u \in TypeIds \ {id} :
                 Entry(key_current'[t], u) = Entry(key_current[t], u)]_vars

\* C14 witness: a bind was made while another type was bound to a
\* different address.
C14_Witness ==
    /\ last.op = "set_current"
    /\ \E u \in TypeIds \ {last.id} :
          /\ Entry(key_current[last.task], u) # None
          /\ Entry(key_current[last.task], u) # Entry(key_current[last.task], last.id)

====
